---- MODULE Spec2Model ----
(***************************************************************************)
(* A model of fujitsueos/sql-migrate: the migration document parser        *)
(* (sqlparse/sqlparse.go) and the Migrator (migrator.go).                  *)
(*                                                                         *)
(* Text is modelled as sequences of one-character strings, so that the     *)
(* prefix, suffix, trimming and word-splitting tests of the parser are     *)
(* computed character by character as the Go code computes them.           *)
(***************************************************************************)
EXTENDS Integers, Sequences, FiniteSets, TLC

(***************************************************************************)
(* Bounds of the model.                                                    *)
(***************************************************************************)
\* the longest document the parser is given, in lines
MaxLines == 5

\* the longest document of the statement-block specification, in lines
MaxBlockLines == 6

\* the most documents one AddMigrations call is given
MaxDocs == 3

\* the longest text parsed twice, in lines
MaxReproLines == 3

(***************************************************************************)
(* The strings package, as far as the parser uses it.                      *)
(***************************************************************************)
HasPrefix(s, prefix) ==
    /\ Len(s) >= Len(prefix)
    /\ SubSeq(s, 1, Len(prefix)) = prefix

HasSuffix(s, suffix) ==
    /\ Len(s) >= Len(suffix)
    /\ SubSeq(s, Len(s) - Len(suffix) + 1, Len(s)) = suffix

IsSpace(c) == c \in {" ", "\t", "\n", "\r"}

RECURSIVE TrimLeft(_)
TrimLeft(s) ==
    IF s # <<>> /\ IsSpace(Head(s)) THEN TrimLeft(Tail(s)) ELSE s

RECURSIVE TrimRight(_)
TrimRight(s) ==
    IF s # <<>> /\ IsSpace(s[Len(s)])
    THEN TrimRight(SubSeq(s, 1, Len(s) - 1))
    ELSE s

TrimSpace(s) == TrimRight(TrimLeft(s))

\* the length of the run of non-space characters s starts with
RECURSIVE WordLen(_)
WordLen(s) ==
    IF s = <<>> \/ IsSpace(Head(s)) THEN 0 ELSE 1 + WordLen(Tail(s))

\* strings.Fields, and bufio.ScanWords over a string: the maximal runs of
\* non-space characters, in order
RECURSIVE Fields(_)
Fields(s) ==
    IF s = <<>> THEN <<>>
    ELSE IF IsSpace(Head(s)) THEN Fields(Tail(s))
    ELSE LET n == WordLen(s)
         IN  <<SubSeq(s, 1, n)>> \o Fields(SubSeq(s, n + 1, Len(s)))

(***************************************************************************)
(* sqlparse: constants, errors and the pure functions.                     *)
(***************************************************************************)
sqlCmdPrefix == <<"-", "-", " ", "+", "m", "i", "g", "r", "a", "t", "e", " ">>

CommentPrefix == <<"-", "-", " ">>

DirectivePrefix == <<"-", "-", " ", "+">>

DashDash == <<"-", "-">>

NoError == "nil"

ErrNoTerminator == "ERROR: The last statement must be ended by a semicolon"

ErrNotCommand == "ERROR: not a sql-migrate command"

ErrIncompleteCommand == "ERROR: incomplete migration command"

ErrNoStatementEnd == "ERROR: saw StatementBegin with no matching StatementEnd"

ErrNoDirection == "ERROR: no Up/Down annotations found"

PanicImpossibleState == "panic: impossible state"

directionNone == 0

directionUp == 1

directionDown == 2

\* a bug of the scan of endsWithSemicolon: the word that starts the comment
\* is taken for the last word
RECURSIVE lastWordBeforeComment_KeepsComment(_, _)
lastWordBeforeComment_KeepsComment(words, prev) ==
    IF words = <<>> THEN prev
    ELSE IF HasPrefix(Head(words), DashDash) THEN Head(words)
    ELSE lastWordBeforeComment_KeepsComment(Tail(words), Head(words))

\* the word the scan of endsWithSemicolon stops with: the last word before
\* the first word that starts a double-dash comment
RECURSIVE lastWordBeforeComment(_, _)
lastWordBeforeComment(words, prev) ==
    IF words = <<>> THEN prev
    ELSE IF HasPrefix(Head(words), DashDash) THEN prev
    ELSE lastWordBeforeComment(Tail(words), Head(words))

\* a bug of endsWithSemicolon: the semicolon is looked for at the end of the
\* line, inline comments included
endsWithSemicolon_WholeLine(line) == HasSuffix(TrimSpace(line), <<";">>)

endsWithSemicolon(line) ==
    HasSuffix(lastWordBeforeComment(Fields(line), <<>>), <<";">>)

\* a bug of parseCommand: a prefix with nothing after it yields an empty
\* command instead of an error
parseCommand_NoIncompleteCheck(line) ==
    IF ~HasPrefix(line, sqlCmdPrefix)
    THEN [err |-> ErrNotCommand, Command |-> <<>>, Options |-> <<>>]
    ELSE LET fields == Fields(SubSeq(line, Len(sqlCmdPrefix) + 1, Len(line)))
         IN  [err |-> NoError,
              Command |-> IF Len(fields) = 0 THEN <<>> ELSE fields[1],
              Options |-> IF Len(fields) = 0 THEN <<>> ELSE Tail(fields)]

parseCommand(line) ==
    IF ~HasPrefix(line, sqlCmdPrefix)
    THEN [err |-> ErrNotCommand, Command |-> <<>>, Options |-> <<>>]
    ELSE LET fields == Fields(SubSeq(line, Len(sqlCmdPrefix) + 1, Len(line)))
         IN  IF Len(fields) = 0
             THEN [err |-> ErrIncompleteCommand, Command |-> <<>>, Options |-> <<>>]
             ELSE [err |-> NoError, Command |-> fields[1], Options |-> Tail(fields)]

CmdUp == <<"U", "p">>

CmdDown == <<"D", "o", "w", "n">>

CmdStatementBegin ==
    <<"S", "t", "a", "t", "e", "m", "e", "n", "t", "B", "e", "g", "i", "n">>

CmdStatementEnd ==
    <<"S", "t", "a", "t", "e", "m", "e", "n", "t", "E", "n", "d">>

\* a bug of bufferHoldsText: the length test is off by one
bufferHoldsText_OffByOne(buffer) == Len(TrimSpace(buffer)) > 1

\* len(strings.TrimSpace(buf.String())) > 0
bufferHoldsText(buffer) == Len(TrimSpace(buffer)) > 0

\* the zero value of migrationState
migrationStateZero ==
    [statementEnded |-> FALSE, ignoreSemicolons |-> FALSE,
     direction |-> directionNone]

\* updateState returns (nextState, err)
updateState(line, buffer, currentState) ==
    IF ~HasPrefix(line, sqlCmdPrefix)
    THEN [state |-> currentState, err |-> NoError]
    ELSE LET cmd == parseCommand(line)
         IN  IF cmd.err # NoError
             THEN [state |-> currentState, err |-> cmd.err]
             ELSE IF cmd.Command = CmdUp
             THEN IF bufferHoldsText(buffer)
                  THEN [state |-> currentState, err |-> ErrNoTerminator]
                  ELSE [state |-> [currentState EXCEPT !.direction = directionUp],
                        err |-> NoError]
             ELSE IF cmd.Command = CmdDown
             THEN IF bufferHoldsText(buffer)
                  THEN [state |-> currentState, err |-> ErrNoTerminator]
                  ELSE [state |-> [currentState EXCEPT !.direction = directionDown],
                        err |-> NoError]
             ELSE IF cmd.Command = CmdStatementBegin
             THEN IF currentState.direction # directionNone
                  THEN [state |-> [currentState EXCEPT !.ignoreSemicolons = TRUE],
                        err |-> NoError]
                  ELSE [state |-> currentState, err |-> NoError]
             ELSE IF cmd.Command = CmdStatementEnd
             THEN IF currentState.direction # directionNone
                  THEN [state |-> [currentState EXCEPT
                                     !.statementEnded = currentState.ignoreSemicolons,
                                     !.ignoreSemicolons = FALSE],
                        err |-> NoError]
                  ELSE [state |-> currentState, err |-> NoError]
             ELSE [state |-> currentState, err |-> NoError]

(***************************************************************************)
(* The lines documents are made of.                                        *)
(***************************************************************************)
\* the Up directive: "-- +migrate Up"
LineUp ==
    <<"-", "-", " ", "+", "m", "i", "g", "r", "a", "t", "e", " ", "U", "p">>

\* the Down directive: "-- +migrate Down"
LineDown ==
    <<"-", "-", " ", "+", "m", "i", "g", "r", "a", "t", "e", " ", "D", "o", "w", "n">>

\* the StatementBegin directive: "-- +migrate StatementBegin"
LineBegin ==
    <<"-", "-", " ", "+", "m", "i", "g", "r", "a", "t", "e", " ", "S", "t", "a", "t", "e", "m", "e", "n", "t", "B", "e", "g", "i", "n">>

\* the StatementEnd directive: "-- +migrate StatementEnd"
LineEnd ==
    <<"-", "-", " ", "+", "m", "i", "g", "r", "a", "t", "e", " ", "S", "t", "a", "t", "e", "m", "e", "n", "t", "E", "n", "d">>

\* the command prefix with a command that is none of the four: "-- +migrate down"
LineUnknown ==
    <<"-", "-", " ", "+", "m", "i", "g", "r", "a", "t", "e", " ", "d", "o", "w", "n">>

\* the command prefix with no command after it: "-- +migrate "
LineBare == <<"-", "-", " ", "+", "m", "i", "g", "r", "a", "t", "e", " ">>

\* a plain comment line: "-- c"
LineComment == <<"-", "-", " ", "c">>

\* a comment written without a space after the dashes: "--c;"
LineTightComment == <<"-", "-", "c", ";">>

\* statement text that ends no statement: "a"
LineA == <<"a">>

\* statement text ending in a semicolon: "a;"
LineAS == <<"a", ";">>

\* a semicolon followed by an inline comment: "b; -- c"
LineBSC == <<"b", ";", " ", "-", "-", " ", "c">>

\* a semicolon inside an inline comment: "a -- c;"
LineACS == <<"a", " ", "-", "-", " ", "c", ";">>

\* the line separator of the MSSQL use case: "GO"
LineGO == <<"G", "O">>

\* the empty line
LineBlank == <<>>

Lines ==
    {LineUp, LineDown, LineBegin, LineEnd, LineUnknown, LineBare,
     LineComment, LineTightComment, LineBlank, LineA, LineAS, LineBSC,
     LineACS, LineGO}

\* the values the package variable LineSeparator is given
LineSeparators == {<<>>, LineGO}

(***************************************************************************)
(* State.                                                                  *)
(*                                                                         *)
(* The parser: the package variable LineSeparator and, for the call of     *)
(* ParseMigration in progress, its locals line, buf, state and p, the      *)
(* number of lines the scanner has delivered, and what the call returned.  *)
(* parserPc is where the call is: "scan" in the loop, "failed" returned    *)
(* from inside the loop, "eof" returned by the checks after the loop,      *)
(* "panicked" at the panic of the flush.                                   *)
(* A pointer is a sequence: <<>> is nil, <<v>> points to v.                *)
(*                                                                         *)
(* History of the document read so far, kept for stating properties:       *)
(* lastDirection, beginPending, block and section.                         *)
(*                                                                         *)
(* The Migrator: its catalog m.migrations, the rows of the migrations      *)
(* table, and the call of Exec in progress.                                *)
(*                                                                         *)
(* execPc is where the call of Exec is: "idle" no call, "locked" after     *)
(* begin, "apply" in the loop over the planned migrations (planIndex is    *)
(* the next one), "returned" with the results applied and execErr.  tx is  *)
(* the rows as the open transaction sees them, txOpen whether m.tx is a    *)
(* transaction that has been neither committed nor rolled back.  current   *)
(* is record.Id of planMigration.  The locals are reset when the call has  *)
(* returned.                                                               *)
(*                                                                         *)
(* History of the call of Exec: planRecords, the row ids planMigration     *)
(* selected (<<>> before it has), recordsAtCall, the rows when Exec was    *)
(* called, executed, the statements the call has executed, and upDone,     *)
(* whether an Exec(Up) has committed with no load and no Exec(Down) since, *)
(* and upDoneAtCall, what upDone was when Exec was called.                 *)
(*                                                                         *)
(* Two calls of ParseMigration on one text: doc is the text, call the      *)
(* number of the call in progress (0 when the text is not fixed            *)
(* beforehand), firstRet what the first call returned (<<>> before it      *)
(* has).                                                                   *)
(*                                                                         *)
(* Two Migrators with the same catalog on one database, each calling       *)
(* Exec(Up) once: for each run, runPc, runTx, runOpen, runPlan, runIndex,  *)
(* runApplied and runErr are what execPc, tx, txOpen, plan, planIndex,     *)
(* applied and execErr are for one; lockHolders are the runs whose         *)
(* transaction holds the ACCESS EXCLUSIVE lock on the table.  History:     *)
(* planOverlap, whether the run planned while the other run's transaction  *)
(* was in progress, and runCommitted, the migrations the run's commit      *)
(* applied.                                                                *)
(***************************************************************************)
VARIABLES
    LineSeparator, parserPc, nlines, line, buf, state, p, retP, retErr,
    lastDirection, beginPending, block, section,
    migrations, records, execPc, dir, tx, txOpen, current, plan, planIndex,
    applied, execErr,
    planRecords, recordsAtCall, executed, upDone, upDoneAtCall,
    doc, call, firstRet,
    runPc, runTx, runOpen, runPlan, runIndex, runApplied, runErr, lockHolders,
    planOverlap, runCommitted

parserVars ==
    <<LineSeparator, parserPc, nlines, line, buf, state, p, retP, retErr,
      lastDirection, beginPending, block, section>>

migratorVars ==
    <<migrations, records, execPc, dir, tx, txOpen, current, plan, planIndex,
      applied, execErr, planRecords, recordsAtCall, executed, upDone,
      upDoneAtCall>>

reproVars == <<doc, call, firstRet>>

\* the variables of the other specifications
raceVars ==
    <<runPc, runTx, runOpen, runPlan, runIndex, runApplied, runErr,
      lockHolders, planOverlap, runCommitted>>

otherVars == <<reproVars, raceVars>>

vars == <<parserVars, migratorVars, otherVars>>

(***************************************************************************)
(* The Migrator: migrations, their names and versions.                     *)
(*                                                                         *)
(* Migration, PlannedMigration, MigrationRecord, ParseVersion and byId are *)
(* used by migrator.go and defined in a file that is not part of the       *)
(* sources at hand; they are modelled from their uses and from the         *)
(* specification.                                                          *)
(***************************************************************************)
Up == 0

Down == 1

Digits == <<"0", "1", "2", "3", "4", "5", "6", "7", "8", "9">>

IsDigit(c) == \E d \in DOMAIN Digits : Digits[d] = c

DigitValue(c) == (CHOOSE d \in DOMAIN Digits : Digits[d] = c) - 1

\* the number the leading decimal digits of the name spell, so far acc
RECURSIVE LeadingNumber(_, _)
LeadingNumber(name, acc) ==
    IF name # <<>> /\ IsDigit(Head(name))
    THEN LeadingNumber(Tail(name), 10 * acc + DigitValue(Head(name)))
    ELSE acc

ErrInvalidVersionName == "ERROR: name does not start with a version number"

\* ParseVersion returns (version, err): the leading decimal integer of the
\* name, an error for a name that starts with none
ParseVersion(name) ==
    IF name # <<>> /\ IsDigit(Head(name))
    THEN [Id |-> LeadingNumber(name, 0), err |-> NoError]
    ELSE [Id |-> 0, err |-> ErrInvalidVersionName]

\* the names of the documents given to AddMigrations
Name0a == <<"0", "_", "a">>

Name1a == <<"1", "_", "a">>

Name1b == <<"1", "_", "b">>

Name2a == <<"2", "_", "a">>

NameNoVersion == <<"a", "_", "1">>

DocNames == {Name0a, Name1a, Name1b, Name2a, NameNoVersion}

\* the statements sqlparse.ParseMigration returns for the document of a name
UpStatementsOf(name) == <<<<"up 1 of">> \o name, <<"up 2 of">> \o name>>

DownStatementsOf(name) == <<<<"down of">> \o name>>

\* the Migration loadMigrations builds for a document
MigrationOf(name) ==
    [Id |-> ParseVersion(name).Id, FileName |-> name,
     Up |-> UpStatementsOf(name), Down |-> DownStatementsOf(name)]

ErrParsingMigration == "Error parsing migration"

\* the loop of loadMigrations over the documents in the order the map
\* yields them; bad are the names whose document does not parse
RECURSIVE loadLoop(_, _, _)
loadLoop(names, bad, loaded) ==
    IF names = <<>> THEN [migrations |-> loaded, err |-> NoError]
    ELSE IF ParseVersion(Head(names)).err # NoError
    THEN [migrations |-> loaded, err |-> ParseVersion(Head(names)).err]
    ELSE IF Head(names) \in bad
    THEN [migrations |-> loaded, err |-> ErrParsingMigration]
    ELSE loadLoop(Tail(names), bad, Append(loaded, MigrationOf(Head(names))))

IsArrangement(a) == \A i, j \in DOMAIN a : i # j => a[i] # a[j]

\* ascending by Id
IsSortedById(ms) == \A i, j \in DOMAIN ms : i < j => ms[i].Id <= ms[j].Id

\* sort.Sort(byId(ms)): the migrations in ascending order of Id; the sort is
\* not stable, so migrations of equal Id come in any order
SortsById(ms) ==
    {sorted \in [DOMAIN ms -> {ms[i] : i \in DOMAIN ms}] :
        /\ \A i \in DOMAIN ms :
              Cardinality({j \in DOMAIN ms : sorted[j] = ms[i]})
                  = Cardinality({j \in DOMAIN ms : ms[j] = ms[i]})
        /\ IsSortedById(sorted)}

(***************************************************************************)
(* planMigration and filter.                                               *)
(***************************************************************************)
SetMax(S) == CHOOSE x \in S : \A y \in S : y <= x

\* the index the scan of filter ends with, counted from 0 as in the code
RECURSIVE scanFor(_, _, _)
scanFor(current_, ms, index) ==
    IF index < Len(ms) - 1
    THEN IF ms[index + 2].Id = current_
         THEN index + 1
         ELSE scanFor(current_, ms, index + 1)
    ELSE index

\* a mistaken reading of filter: a version that is not found leaves the
\* index at -1, as if nothing had been applied
filter_NotFoundIsNone(ms, current_, direction) ==
    LET found == {i \in DOMAIN ms : ms[i].Id = current_}
        index == IF current_ > 0 /\ found # {}
                 THEN (CHOOSE i \in found : \A j \in found : i <= j) - 1
                 ELSE -1
    IN  IF direction = Up THEN SubSeq(ms, index + 2, Len(ms))
        ELSE [i \in 1..(index + 1) |-> ms[index + 2 - i]]

\* filter of the Migrator whose catalog is ms
filter(ms, current_, direction) ==
    LET index == IF current_ > 0 THEN scanFor(current_, ms, -1) ELSE -1
    IN  IF direction = Up THEN SubSeq(ms, index + 2, Len(ms))
        ELSE IF index = -1 THEN <<>>
        ELSE [i \in 1..(index + 1) |-> ms[index + 2 - i]]

\* record.Id of planMigration: the highest Id of the rows, 0 with no row
lastRecordId(rows) == IF rows # {} THEN SetMax(rows) ELSE 0

PlannedMigrationOf(m, direction) ==
    [Migration |-> m, Queries |-> IF direction = Up THEN m.Up ELSE m.Down]

\* planMigration, once the rows have been selected
planMigration(ms, rows, direction) ==
    LET apply == filter(ms, lastRecordId(rows), direction)
    IN  [i \in DOMAIN apply |-> PlannedMigrationOf(apply[i], direction)]

(***************************************************************************)
(* The Migrator's operations.                                              *)
(***************************************************************************)
ErrDatabase == "database error"

\* no call of Exec in progress
ExecStart ==
    /\ execPc = "idle"
    /\ dir = Up
    /\ tx = {}
    /\ txOpen = FALSE
    /\ current = 0
    /\ plan = <<>>
    /\ planIndex = 0
    /\ applied = 0
    /\ execErr = NoError
    /\ planRecords = <<>>
    /\ recordsAtCall = {}
    /\ executed = 0
    /\ upDone = FALSE
    /\ upDoneAtCall = FALSE

MigratorInit ==
    /\ migrations = <<>>
    /\ records = {}
    /\ ExecStart

execLocals == <<dir, tx, txOpen, current, plan, planIndex, applied, execErr>>

execHistory == <<planRecords, recordsAtCall, executed, upDoneAtCall>>

\* m.migrations after loadMigrations over the documents names, in the order
\* the map yields them: sorted, unless the loop returned an error
loadMigrations(names, bad) ==
    LET loaded == loadLoop(names, bad, <<>>)
    IN  IF loaded.err # NoError
        THEN {loaded.migrations}
        ELSE SortsById(loaded.migrations)

\* AddMigrations and AddMigrationsFromFile
LoadMigrations(names, bad) ==
    /\ execPc = "idle"
    /\ migrations' \in loadMigrations(names, bad)
    /\ upDone' = FALSE
    /\ UNCHANGED <<records, execPc, execLocals, execHistory, parserVars, otherVars>>

\* Exec is called: begin.  Begin sets m.tx, to nil when it fails; a
\* transaction whose LOCK TABLE failed holds no lock on the table.
ExecBegin(direction, outcome) ==
    /\ execPc = "idle"
    /\ dir' = direction
    /\ recordsAtCall' = records
    /\ executed' = 0
    /\ planRecords' = <<>>
    /\ plan' = <<>>
    /\ planIndex' = 0
    /\ applied' = 0
    /\ current' = 0
    /\ upDoneAtCall' = upDone
    /\ upDone' = (upDone /\ direction = Up)
    /\ CASE outcome = "begin fails" ->
              /\ execPc' = "returned"
              /\ execErr' = ErrDatabase
              /\ tx' = {}
              /\ txOpen' = FALSE
         [] outcome = "lock fails" ->
              /\ execPc' = "returned"
              /\ execErr' = ErrDatabase
              /\ tx' = records
              /\ txOpen' = TRUE
         [] outcome = "locked" ->
              /\ execPc' = "locked"
              /\ execErr' = NoError
              /\ tx' = records
              /\ txOpen' = TRUE
    /\ UNCHANGED <<migrations, records, parserVars, otherVars>>

\* Exec: planMigration, and the rollback when it fails
ExecPlan(selected) ==
    /\ execPc = "locked"
    /\ IF selected
       THEN /\ current' = lastRecordId(tx)
            /\ plan' = planMigration(migrations, tx, dir)
            /\ planRecords' = <<tx>>
            /\ planIndex' = 1
            /\ execPc' = "apply"
            /\ UNCHANGED <<tx, txOpen, execErr>>
       ELSE /\ execPc' = "returned"
            /\ execErr' = ErrDatabase
            /\ tx' = records
            /\ txOpen' = FALSE
            /\ UNCHANGED <<current, plan, planRecords, planIndex>>
    /\ UNCHANGED <<migrations, records, dir, applied, recordsAtCall, executed,
                   upDone, upDoneAtCall, parserVars, otherVars>>

\* a bug of the failure paths of the loop: Commit is called where Rollback
\* is meant
rowsAfterRollback_Commits(rows, view) == view

\* the rows of the table once m.tx.Rollback() has returned: rows, what they
\* were before the transaction; view is what the transaction saw
rowsAfterRollback(rows, view) == rows

\* Exec: one round of the loop over the planned migrations.  failing is the
\* statement of the migration that fails, 0 for none; recordFails whether
\* the database refuses the insert or delete of the row.
ExecApply(failing, recordFails) ==
    /\ execPc = "apply"
    /\ planIndex <= Len(plan)
    /\ LET migration == plan[planIndex]
           id == migration.Migration.Id
       IN  /\ failing \in 0..Len(migration.Queries)
           /\ IF failing > 0
              THEN /\ executed' = executed + failing - 1
                   /\ execPc' = "returned"
                   /\ execErr' = ErrDatabase
                   /\ records' = rowsAfterRollback(records, tx)
                   /\ tx' = records'
                   /\ txOpen' = FALSE
                   /\ UNCHANGED <<planIndex, applied>>
              ELSE /\ executed' = executed + Len(migration.Queries)
                   /\ IF recordFails \/ (dir = Up /\ id \in tx)
                      THEN /\ execPc' = "returned"
                           /\ execErr' = ErrDatabase
                           /\ records' = rowsAfterRollback(records, tx)
                           /\ tx' = records'
                           /\ txOpen' = FALSE
                           /\ UNCHANGED <<planIndex, applied>>
                      ELSE /\ tx' = (IF dir = Up THEN tx \cup {id} ELSE tx \ {id})
                           /\ applied' = applied + 1
                           /\ planIndex' = planIndex + 1
                           /\ UNCHANGED <<execPc, execErr, txOpen, records>>
    /\ UNCHANGED <<migrations, dir, current, plan, planRecords,
                   recordsAtCall, upDone, upDoneAtCall, parserVars, otherVars>>

\* Exec: the commit after the loop
ExecCommit(committed) ==
    /\ execPc = "apply"
    /\ planIndex > Len(plan)
    /\ execPc' = "returned"
    /\ txOpen' = FALSE
    /\ IF committed
       THEN /\ records' = tx
            /\ execErr' = NoError
            /\ upDone' = (dir = Up)
            /\ UNCHANGED tx
       ELSE /\ execErr' = ErrDatabase
            /\ tx' = records
            /\ UNCHANGED <<records, upDone>>
    /\ UNCHANGED <<migrations, dir, current, plan, planIndex, applied,
                   execHistory, parserVars, otherVars>>

\* the caller has the results of Exec: its locals are gone; a transaction it
\* left open stays open
ExecReturn ==
    /\ execPc = "returned"
    /\ execPc' = "idle"
    /\ dir' = Up
    /\ tx' = {}
    /\ current' = 0
    /\ plan' = <<>>
    /\ planIndex' = 0
    /\ applied' = 0
    /\ execErr' = NoError
    /\ planRecords' = <<>>
    /\ recordsAtCall' = {}
    /\ executed' = 0
    /\ upDoneAtCall' = FALSE
    /\ UNCHANGED <<migrations, records, txOpen, upDone, parserVars, otherVars>>

(***************************************************************************)
(* Two Migrators on one database.                                          *)
(***************************************************************************)
Runs == {1, 2}

OtherRun(m) == 3 - m

\* neither Migrator has called Exec
RaceStart ==
    /\ runPc = [m \in Runs |-> "idle"]
    /\ runTx = [m \in Runs |-> {}]
    /\ runOpen = [m \in Runs |-> FALSE]
    /\ runPlan = [m \in Runs |-> <<>>]
    /\ runIndex = [m \in Runs |-> 0]
    /\ runApplied = [m \in Runs |-> 0]
    /\ runErr = [m \in Runs |-> NoError]
    /\ lockHolders = {}
    /\ planOverlap = [m \in Runs |-> FALSE]
    /\ runCommitted = [m \in Runs |-> {}]

\* the documents one call of AddMigrations is given
DocNameOrders == {a \in UNION {[1..n -> DocNames] : n \in 0..MaxDocs} :
                     IsArrangement(a)}

Next ==
    \/ \E names \in DocNameOrders :
          \E bad \in {{}} \cup {{names[i]} : i \in DOMAIN names} :
              LoadMigrations(names, bad)
    \/ \E direction \in {Up, Down} :
          \E outcome \in {"begin fails", "lock fails", "locked"} :
              ExecBegin(direction, outcome)
    \/ \E selected \in BOOLEAN : ExecPlan(selected)
    \/ \E failing \in 0..2, recordFails \in BOOLEAN :
          ExecApply(failing, recordFails)
    \/ \E committed \in BOOLEAN : ExecCommit(committed)
    \/ ExecReturn

(***************************************************************************)
(* ParseMigration.                                                         *)
(***************************************************************************)
\* the zero value of ParsedMigration
ParsedMigrationZero == [UpStatements |-> <<>>, DownStatements |-> <<>>]

\* the comment lines the scan loop skips
isSkippedComment(l) ==
    HasPrefix(l, CommentPrefix) /\ ~HasPrefix(l, DirectivePrefix)

\* a bug of isLineSeparator: the separator is recognised inside a statement
\* block as well
isLineSeparator_InsideBlock(l, st, separator) ==
    Len(separator) > 0 /\ l = separator

isLineSeparator(l, st, separator) ==
    ~st.ignoreSemicolons /\ Len(separator) > 0 /\ l = separator

\* a bug of noDirectionYet: lines read before any direction directive are
\* not passed over
noDirectionYet_Never(st) == FALSE

\* the loop passes over every line read while no direction is set
noDirectionYet(st) == st.direction = directionNone

\* buf after the loop body's WriteString, or buf as it was
writeLine(buffer, l, isSeparator) ==
    IF ~isSeparator /\ ~HasPrefix(l, DirectivePrefix)
    THEN buffer \o l \o <<"\n">>
    ELSE buffer

\* a bug of wrapsUp: a semicolon wraps up a statement inside a statement
\* block as well
wrapsUp_InsideBlock(l, st, isSeparator) ==
    \/ endsWithSemicolon(l) \/ isSeparator
    \/ st.statementEnded

\* whether the line wraps up a statement
wrapsUp(l, st, isSeparator) ==
    \/ ~st.ignoreSemicolons /\ (endsWithSemicolon(l) \/ isSeparator)
    \/ st.statementEnded

\* One iteration of the scan loop over the locals
\* c = [buf, state, p, retP, retErr, pc].
scanLine(l, c, separator) ==
    IF isSkippedComment(l) THEN c
    ELSE LET u == updateState(l, c.buf, c.state)
         IN
         IF u.err # NoError
         THEN [c EXCEPT !.state = u.state, !.pc = "failed",
                        !.retP = <<>>, !.retErr = u.err]
         ELSE IF noDirectionYet(u.state)
         THEN [c EXCEPT !.state = u.state]
         ELSE LET isSeparator == isLineSeparator(l, u.state, separator)
                  written == writeLine(c.buf, l, isSeparator)
              IN
              IF ~wrapsUp(l, u.state, isSeparator)
              THEN [c EXCEPT !.state = u.state, !.buf = written]
              ELSE IF u.state.direction = directionUp
              THEN [c EXCEPT !.state = [u.state EXCEPT !.statementEnded = FALSE],
                             !.p.UpStatements = Append(@, written),
                             !.buf = <<>>]
              ELSE IF u.state.direction = directionDown
              THEN [c EXCEPT !.state = [u.state EXCEPT !.statementEnded = FALSE],
                             !.p.DownStatements = Append(@, written),
                             !.buf = <<>>]
              ELSE [c EXCEPT !.state = [u.state EXCEPT !.statementEnded = FALSE],
                             !.pc = "panicked", !.retP = <<>>,
                             !.retErr = PanicImpossibleState]

\* a bug of the checks after the loop: text left in the buffer is accepted
diagnose_NoTerminatorCheck(c) ==
    IF c.state.ignoreSemicolons
    THEN [c EXCEPT !.pc = "eof", !.retP = <<>>, !.retErr = ErrNoStatementEnd]
    ELSE IF c.state.direction = directionNone
    THEN [c EXCEPT !.pc = "eof", !.retP = <<>>, !.retErr = ErrNoDirection]
    ELSE [c EXCEPT !.pc = "eof", !.retP = <<c.p>>, !.retErr = NoError]

\* a bug of the checks after the loop: the missing terminator is diagnosed
\* before the open statement block
diagnose_TerminatorFirst(c) ==
    IF c.state.direction = directionNone
    THEN [c EXCEPT !.pc = "eof", !.retP = <<>>, !.retErr = ErrNoDirection]
    ELSE IF bufferHoldsText(c.buf) /\ ~HasPrefix(c.buf, DirectivePrefix)
    THEN [c EXCEPT !.pc = "eof", !.retP = <<>>, !.retErr = ErrNoTerminator]
    ELSE IF c.state.ignoreSemicolons
    THEN [c EXCEPT !.pc = "eof", !.retP = <<>>, !.retErr = ErrNoStatementEnd]
    ELSE [c EXCEPT !.pc = "eof", !.retP = <<c.p>>, !.retErr = NoError]

\* What ParseMigration returns once the scanner is exhausted.
diagnose(c) ==
    IF c.state.ignoreSemicolons
    THEN [c EXCEPT !.pc = "eof", !.retP = <<>>, !.retErr = ErrNoStatementEnd]
    ELSE IF c.state.direction = directionNone
    THEN [c EXCEPT !.pc = "eof", !.retP = <<>>, !.retErr = ErrNoDirection]
    ELSE IF bufferHoldsText(c.buf) /\ ~HasPrefix(c.buf, DirectivePrefix)
    THEN [c EXCEPT !.pc = "eof", !.retP = <<>>, !.retErr = ErrNoTerminator]
    ELSE [c EXCEPT !.pc = "eof", !.retP = <<c.p>>, !.retErr = NoError]

locals ==
    [buf |-> buf, state |-> state, p |-> p, retP |-> retP, retErr |-> retErr,
     pc |-> parserPc]

setLocals(c) ==
    /\ buf' = c.buf
    /\ state' = c.state
    /\ p' = c.p
    /\ retP' = c.retP
    /\ retErr' = c.retErr
    /\ parserPc' = c.pc

(***************************************************************************)
(* History: what the document read so far looked like.  It is computed     *)
(* from the lines alone (and the values of buf and p at a StatementBegin), *)
(* never from the parser's own state flags.                                *)
(***************************************************************************)
DirectionLines == {LineUp, LineDown}

blockZero ==
    [open |-> FALSE, closed |-> FALSE, lines |-> <<>>, bufAtBegin |-> <<>>,
     countAtBegin |-> 0]

\* lastDirection: the last Up or Down directive read, <<>> before the first.
\* beginPending: a StatementBegin was read and no StatementEnd since.
\* block.open: a StatementBegin was read after a direction directive and no
\* StatementEnd since; block.lines: the lines read since that StatementBegin;
\* block.closed: the line just read is the StatementEnd that closed it.
blockAfter(l) ==
    IF block.open
    THEN IF l = LineEnd
         THEN [block EXCEPT !.open = FALSE, !.closed = TRUE]
         ELSE [block EXCEPT !.lines = Append(@, l)]
    ELSE IF l = LineBegin /\ lastDirection # <<>>
    THEN [open |-> TRUE, closed |-> FALSE, lines |-> <<>>, bufAtBegin |-> buf,
          countAtBegin |-> Len(p.UpStatements) + Len(p.DownStatements)]
    ELSE blockZero

\* the lines that are statement text to the parser
StatementLines ==
    {LineA, LineAS, LineBSC, LineACS, LineBlank, LineTightComment, LineGO}

sectionZero == [class |-> "start", direction |-> <<>>, lines |-> <<>>]

\* section.class = "plain": the document so far is plain comment lines, one
\* direction directive (section.direction) and after it only plain comment
\* lines and statement lines; section.lines are those statement lines.
sectionAfter(l) ==
    IF l = LineComment /\ section.class # "other" THEN section
    ELSE IF section.class = "start" /\ l \in DirectionLines
    THEN [class |-> "plain", direction |-> l, lines |-> <<>>]
    ELSE IF /\ section.class = "plain"
            /\ l \in StatementLines
            /\ ~(Len(LineSeparator) > 0 /\ l = LineSeparator)
    THEN [section EXCEPT !.lines = Append(@, l)]
    ELSE [class |-> "other", direction |-> <<>>, lines |-> <<>>]

\* ParseMigration is entered: its locals, and no line read yet
ParseStart ==
    /\ parserPc = "scan"
    /\ nlines = 0
    /\ line = <<>>
    /\ buf = <<>>
    /\ state = migrationStateZero
    /\ p = ParsedMigrationZero
    /\ retP = <<>>
    /\ retErr = NoError
    /\ lastDirection = <<>>
    /\ beginPending = FALSE
    /\ block = blockZero
    /\ section = sectionZero

ParseInit ==
    /\ LineSeparator \in LineSeparators
    /\ ParseStart
    /\ MigratorInit
    /\ RaceStart
    /\ doc = <<>>
    /\ call = 0
    /\ firstRet = <<>>

\* scanner.Scan() delivers the next line and the loop body runs on it
ScanLine(l) ==
    /\ parserPc = "scan"
    /\ nlines' = nlines + 1
    /\ line' = l
    /\ setLocals(scanLine(l, locals, LineSeparator))
    /\ lastDirection' = (IF l \in DirectionLines THEN l ELSE lastDirection)
    /\ beginPending' = (l = LineBegin \/ (beginPending /\ l # LineEnd))
    /\ block' = blockAfter(l)
    /\ section' = sectionAfter(l)
    /\ UNCHANGED <<LineSeparator, migratorVars, otherVars>>

\* scanner.Scan() returns false: the checks after the loop
EndOfInput ==
    /\ parserPc = "scan"
    /\ setLocals(diagnose(locals))
    /\ UNCHANGED <<LineSeparator, nlines, line, lastDirection, beginPending,
                   block, section, migratorVars, otherVars>>

ParseNext ==
    \/ \E l \in Lines : nlines < MaxLines /\ ScanLine(l)
    \/ EndOfInput

\* every document of at most MaxLines lines, under either line separator
ParserSpec == ParseInit /\ [][ParseNext]_vars

\* the lines of the documents of the statement-block specification
BlockLines ==
    {LineUp, LineDown, LineBegin, LineEnd, LineAS, LineACS, LineBlank,
     LineComment}

BlockInit == ParseInit /\ LineSeparator = <<>>

BlockNext ==
    \/ \E l \in BlockLines : nlines < MaxBlockLines /\ ScanLine(l)
    \/ EndOfInput

\* every document of at most MaxBlockLines lines over BlockLines, with no line
\* separator configured
BlockSpec == BlockInit /\ [][BlockNext]_vars

(***************************************************************************)
(* Two calls of ParseMigration on the same text, while the program assigns *)
(* the package variable LineSeparator.                                     *)
(***************************************************************************)
\* the lines of the texts parsed twice
ReproLines == {LineUp, LineA, LineAS, LineGO}

ReproDocs == UNION {[1..n -> ReproLines] : n \in 0..MaxReproLines}

ReproInit ==
    /\ LineSeparator \in LineSeparators
    /\ ParseStart
    /\ MigratorInit
    /\ RaceStart
    /\ doc \in ReproDocs
    /\ call = 1
    /\ firstRet = <<>>

\* the scanner delivers the next line of the text
ReproScan == nlines < Len(doc) /\ ScanLine(doc[nlines + 1])

\* the scanner has delivered every line of the text
ReproEnd == nlines = Len(doc) /\ EndOfInput

\* the first call has returned; ParseMigration is called on the same text again
ReproSecondCall ==
    /\ call = 1
    /\ parserPc \in {"failed", "eof", "panicked"}
    /\ firstRet' = <<[p |-> retP, err |-> retErr]>>
    /\ call' = 2
    /\ parserPc' = "scan"
    /\ nlines' = 0
    /\ line' = <<>>
    /\ buf' = <<>>
    /\ state' = migrationStateZero
    /\ p' = ParsedMigrationZero
    /\ retP' = <<>>
    /\ retErr' = NoError
    /\ lastDirection' = <<>>
    /\ beginPending' = FALSE
    /\ block' = blockZero
    /\ section' = sectionZero
    /\ UNCHANGED <<LineSeparator, doc, migratorVars, raceVars>>

\* the program assigns the package variable, between two calls or during one
SetLineSeparator(separator) ==
    /\ separator # LineSeparator
    /\ LineSeparator' = separator
    /\ UNCHANGED <<parserPc, nlines, line, buf, state, p, retP, retErr,
                   lastDirection, beginPending, block, section, migratorVars,
                   otherVars>>

ReproNext ==
    \/ ReproScan
    \/ ReproEnd
    \/ ReproSecondCall
    \/ \E separator \in LineSeparators : SetLineSeparator(separator)

ReproSpec == ReproInit /\ [][ReproNext]_vars

(***************************************************************************)
(* Two Migrators with the same catalog call Exec(Up) on one database.      *)
(***************************************************************************)
\* the catalogs loadMigrations leaves
RaceCatalogs ==
    UNION {loadMigrations(names, bad) :
             <<names, bad>> \in
                 {nb \in DocNameOrders \X ({{}} \cup {{n} : n \in DocNames}) :
                     nb[2] \subseteq {nb[1][i] : i \in DOMAIN nb[1]}}}

\* the rows of the migrations table before the two runs
RaceRecords == {{}, {1}, {0, 1}}

RaceInit ==
    /\ LineSeparator = <<>>
    /\ ParseStart
    /\ ExecStart
    /\ RaceStart
    /\ doc = <<>>
    /\ call = 0
    /\ firstRet = <<>>
    /\ migrations \in RaceCatalogs
    /\ records \in RaceRecords

\* a bug of lockGranted: the lock is given while another transaction holds it
lockGranted_NoWait(holders, m) == TRUE

\* LOCK TABLE ... IN ACCESS EXCLUSIVE MODE returns once no other transaction
\* holds a lock on the table
lockGranted(holders, m) == holders \ {m} = {}

\* the variables a run's steps leave alone
raceFrame == <<migrations, parserVars, reproVars, execPc, execLocals,
               execHistory, upDone>>

\* Exec of Migrator m: begin
RaceBegin(m, outcome) ==
    /\ runPc[m] = "idle"
    /\ CASE outcome = "begin fails" ->
              /\ runPc' = [runPc EXCEPT ![m] = "returned"]
              /\ runErr' = [runErr EXCEPT ![m] = ErrDatabase]
              /\ UNCHANGED <<runOpen, lockHolders>>
         [] outcome = "lock fails" ->
              /\ runPc' = [runPc EXCEPT ![m] = "returned"]
              /\ runErr' = [runErr EXCEPT ![m] = ErrDatabase]
              /\ runOpen' = [runOpen EXCEPT ![m] = TRUE]
              /\ UNCHANGED lockHolders
         [] outcome = "locked" ->
              /\ lockGranted(lockHolders, m)
              /\ runPc' = [runPc EXCEPT ![m] = "locked"]
              /\ runOpen' = [runOpen EXCEPT ![m] = TRUE]
              /\ lockHolders' = lockHolders \cup {m}
              /\ UNCHANGED runErr
    /\ UNCHANGED <<records, runTx, runPlan, runIndex, runApplied, planOverlap,
                   runCommitted, raceFrame>>

\* Exec of Migrator m: planMigration over the rows committed by now, and the
\* rollback when the query fails
RacePlan(m, selected) ==
    /\ runPc[m] = "locked"
    /\ IF selected
       THEN /\ runTx' = [runTx EXCEPT ![m] = records]
            /\ runPlan' = [runPlan EXCEPT ![m] = planMigration(migrations, records, Up)]
            /\ runIndex' = [runIndex EXCEPT ![m] = 1]
            /\ runPc' = [runPc EXCEPT ![m] = "apply"]
            /\ planOverlap' =
                  [planOverlap EXCEPT ![m] = runPc[OtherRun(m)] \in {"locked", "apply"}]
            /\ UNCHANGED <<runOpen, runErr, lockHolders>>
       ELSE /\ runPc' = [runPc EXCEPT ![m] = "returned"]
            /\ runErr' = [runErr EXCEPT ![m] = ErrDatabase]
            /\ runOpen' = [runOpen EXCEPT ![m] = FALSE]
            /\ lockHolders' = lockHolders \ {m}
            /\ UNCHANGED <<runTx, runPlan, runIndex, planOverlap>>
    /\ UNCHANGED <<records, runApplied, runCommitted, raceFrame>>

\* Exec of Migrator m: one round of the loop over the planned migrations; the
\* insert fails on a row the transaction sees or another has committed
RaceApply(m, failing, recordFails) ==
    /\ runPc[m] = "apply"
    /\ runIndex[m] <= Len(runPlan[m])
    /\ LET migration == runPlan[m][runIndex[m]]
           id == migration.Migration.Id
       IN  /\ failing \in 0..Len(migration.Queries)
           /\ IF failing > 0 \/ recordFails \/ id \in runTx[m] \cup records
              THEN /\ runPc' = [runPc EXCEPT ![m] = "returned"]
                   /\ runErr' = [runErr EXCEPT ![m] = ErrDatabase]
                   /\ runOpen' = [runOpen EXCEPT ![m] = FALSE]
                   /\ lockHolders' = lockHolders \ {m}
                   /\ UNCHANGED <<runTx, runIndex, runApplied>>
              ELSE /\ runTx' = [runTx EXCEPT ![m] = @ \cup {id}]
                   /\ runApplied' = [runApplied EXCEPT ![m] = @ + 1]
                   /\ runIndex' = [runIndex EXCEPT ![m] = @ + 1]
                   /\ UNCHANGED <<runPc, runErr, runOpen, lockHolders>>
    /\ UNCHANGED <<records, runPlan, planOverlap, runCommitted, raceFrame>>

\* Exec of Migrator m: the commit after the loop
RaceCommit(m, committed) ==
    /\ runPc[m] = "apply"
    /\ runIndex[m] > Len(runPlan[m])
    /\ runPc' = [runPc EXCEPT ![m] = "returned"]
    /\ runOpen' = [runOpen EXCEPT ![m] = FALSE]
    /\ lockHolders' = lockHolders \ {m}
    /\ IF committed
       THEN /\ records' = records \cup runTx[m]
            /\ runCommitted' =
                  [runCommitted EXCEPT ![m] =
                      {runPlan[m][i].Migration.FileName : i \in DOMAIN runPlan[m]}]
            /\ UNCHANGED runErr
       ELSE /\ runErr' = [runErr EXCEPT ![m] = ErrDatabase]
            /\ UNCHANGED <<records, runCommitted>>
    /\ UNCHANGED <<runTx, runPlan, runIndex, runApplied, planOverlap, raceFrame>>

RaceNext ==
    \E m \in Runs :
        \/ \E outcome \in {"begin fails", "lock fails", "locked"} :
              RaceBegin(m, outcome)
        \/ \E selected \in BOOLEAN : RacePlan(m, selected)
        \/ \E failing \in 0..2, recordFails \in BOOLEAN :
              RaceApply(m, failing, recordFails)
        \/ \E committed \in BOOLEAN : RaceCommit(m, committed)

RaceSpec == RaceInit /\ [][RaceNext]_vars

Init == ParseInit /\ LineSeparator = <<>>

\* the Migrator, with the parser at rest
Spec == Init /\ [][Next]_vars

(***************************************************************************)
(* Properties of the planner and of Exec.                                  *)
(***************************************************************************)
\* planMigration has returned its plan in the call of Exec in progress
Planned == planRecords # <<>>

\* the rows planMigration selected
PlanRows == planRecords[1]

CatalogIds == {migrations[i].Id : i \in DOMAIN migrations}

\* sorted ascending with unique versions
SortedUnique(ms) == \A i, j \in DOMAIN ms : i < j => ms[i].Id < ms[j].Id

UniqueIds(ms) == \A i, j \in DOMAIN ms : i # j => ms[i].Id # ms[j].Id

PositionOf(id) == CHOOSE i \in DOMAIN migrations : migrations[i].Id = id

\* the catalog entries after position pos, in catalog order, each with its
\* up statements
EntriesAfter(pos) ==
    [i \in 1..(Len(migrations) - pos) |->
        [Migration |-> migrations[pos + i], Queries |-> migrations[pos + i].Up]]

\* the catalog entries at or before position pos, in reverse catalog order,
\* each with its down statements
EntriesUpTo(pos) ==
    [i \in 1..pos |->
        [Migration |-> migrations[pos + 1 - i],
         Queries |-> migrations[pos + 1 - i].Down]]

LastAppliedAbsent ==
    /\ Planned
    /\ migrations # <<>>
    /\ PlanRows # {}
    /\ SetMax(PlanRows) \notin CatalogIds

\* C3 as stated: when lastApplied names a version that is not in a non-empty
\* catalog, planning Up yields the entire catalog and planning Down yields an
\* empty plan.
C3_AbsentIsNotFound ==
    LastAppliedAbsent
        => /\ dir = Up => plan = EntriesAfter(0)
           /\ dir = Down => plan = <<>>

\* C3 as amended: when lastApplied names a version greater than 0 that is not
\* in a non-empty catalog, the scan ends at the last position of the catalog:
\* planning Up yields an empty plan and planning Down yields the entire
\* catalog in reverse catalog order, each entry with its down statements; only
\* a lastApplied of 0, which the planner reads as none, yields the entire
\* catalog for Up and an empty plan for Down.
C3_AbsentIsLastPosition ==
    LastAppliedAbsent
        => IF SetMax(PlanRows) > 0
           THEN /\ dir = Up => plan = <<>>
                /\ dir = Down => plan = EntriesUpTo(Len(migrations))
           ELSE /\ dir = Up => plan = EntriesAfter(0)
                /\ dir = Down => plan = <<>>

\* Down was planned over a catalog of two entries or more with the highest
\* row naming a version that is not in it
C3_Witness ==
    /\ LastAppliedAbsent
    /\ SetMax(PlanRows) > 0
    /\ dir = Down
    /\ Len(migrations) >= 2
    /\ Len(plan) = Len(migrations)

\* C4: over a catalog with unique versions, once an Exec(Up) has committed,
\* every later Exec(Up) with the same catalog and no Down in between plans no
\* migration, executes no statement, returns 0 and leaves the rows as they
\* were.
C4_UpIdempotent ==
    (upDoneAtCall /\ dir = Up /\ UniqueIds(migrations))
        => /\ Planned => plan = <<>>
           /\ execPc = "returned"
                => (applied = 0 /\ executed = 0 /\ records = recordsAtCall)

(***************************************************************************)
(* Properties of the parser.                                               *)
(***************************************************************************)
IsBlank(s) == TrimSpace(s) = <<>>

\* the lines, each followed by a newline
RECURSIVE JoinLines(_)
JoinLines(ls) ==
    IF ls = <<>> THEN <<>> ELSE Head(ls) \o <<"\n">> \o JoinLines(Tail(ls))

\* the newline-terminated lines of a text
RECURSIVE SplitLines(_, _)
SplitLines(s, pending) ==
    IF s = <<>> THEN (IF pending = <<>> THEN <<>> ELSE <<pending>>)
    ELSE IF Head(s) = "\n" THEN <<pending>> \o SplitLines(Tail(s), <<>>)
    ELSE SplitLines(Tail(s), Append(pending, Head(s)))

\* the lines of Lines whose statement text ends in a semicolon
SemicolonLines == {LineAS, LineBSC}

IsStatementLine(l) == l \in StatementLines

SemicolonCount(ls) == Cardinality({i \in DOMAIN ls : ls[i] \in SemicolonLines})

StatementCount == Len(p.UpStatements) + Len(p.DownStatements)

\* the list of the direction the last direction directive named
ActiveList ==
    IF lastDirection = LineUp THEN p.UpStatements ELSE p.DownStatements

ParserReturned == parserPc \in {"failed", "eof", "panicked"}

\* C5 as stated: a StatementBegin ... StatementEnd block, opened while a
\* direction is active, that contains several lines ending in semicolons
\* yields exactly one statement in the active direction's list, and that
\* statement is the block's lines verbatim: every line between the two
\* markers, in order, and nothing else.
C5_BlockVerbatim ==
    (block.closed /\ SemicolonCount(block.lines) >= 2)
        => /\ StatementCount = block.countAtBegin + 1
           /\ ActiveList # <<>>
           /\ ActiveList[Len(ActiveList)] = JoinLines(block.lines)

\* C5 as amended: every StatementBegin ... StatementEnd block opened while a
\* direction is active yields exactly one statement, in the list of the
\* direction active at the StatementEnd; its text is what the buffer held
\* when the block opened followed by the block's lines that are statement
\* text (plain comment lines and "-- +" lines are left out), in order, each
\* followed by a newline; the buffer is empty afterwards and the parse goes
\* on.
C5_BlockIsOneStatement ==
    block.closed
        => /\ parserPc \in {"scan", "eof"}
           /\ StatementCount = block.countAtBegin + 1
           /\ ActiveList # <<>>
           /\ ActiveList[Len(ActiveList)] =
                block.bufAtBegin
                    \o JoinLines(SelectSeq(block.lines, IsStatementLine))
           /\ buf = <<>>

\* a block with two semicolon lines has just been closed
C5_Witness ==
    /\ block.closed
    /\ parserPc = "scan"
    /\ SemicolonCount(block.lines) >= 2

\* the statements a plain section's lines are: each ends with its semicolon
\* line; lines after the last semicolon line belong to no statement
RECURSIVE SplitStatements(_, _)
SplitStatements(ls, pending) ==
    IF ls = <<>> THEN <<>>
    ELSE LET text == pending \o Head(ls) \o <<"\n">>
         IN  IF Head(ls) \in SemicolonLines
             THEN <<text>> \o SplitStatements(Tail(ls), <<>>)
             ELSE SplitStatements(Tail(ls), text)

\* every statement of the lines ends with a semicolon: after the last
\* semicolon line come blank lines only
EveryStatementEnded(ls) ==
    \A i \in DOMAIN ls :
        ls[i] # LineBlank => \E j \in i..Len(ls) : ls[j] \in SemicolonLines

\* C6: for every document that uses one direction only (plain comment
\* lines, one direction directive, then statement lines and plain comment
\* lines) and ends every statement with a semicolon, parsing succeeds; the
\* list of that direction holds the statements in source order, one entry
\* per semicolon-terminated statement, none of them empty, and the other
\* direction's list is empty.
C6_OneDirectionSemicolons ==
    (/\ ParserReturned
     /\ section.class = "plain"
     /\ EveryStatementEnded(section.lines))
        => LET expected == SplitStatements(section.lines, <<>>)
               got == IF section.direction = LineUp
                      THEN retP[1].UpStatements
                      ELSE retP[1].DownStatements
               other == IF section.direction = LineUp
                        THEN retP[1].DownStatements
                        ELSE retP[1].UpStatements
           IN  /\ retErr = NoError
               /\ retP # <<>>
               /\ got = expected
               /\ Len(got) = SemicolonCount(section.lines)
               /\ \A i \in DOMAIN got : ~IsBlank(got[i])
               /\ other = <<>>

\* a one-direction document with two statements, one of them of several
\* lines, has been parsed to its end
C6_Witness ==
    /\ parserPc = "eof"
    /\ section.class = "plain"
    /\ EveryStatementEnded(section.lines)
    /\ SemicolonCount(section.lines) >= 2
    /\ \E i \in DOMAIN section.lines :
          section.lines[i] \notin SemicolonLines \cup {LineBlank}
    /\ retErr = NoError

\* C7: an Up or Down directive read while the buffer holds non-blank text,
\* inside or outside a statement block, makes the parse fail with the
\* missing-terminator error, and the call returns no statement lists.
C7_DirectiveMidStatement ==
    [][(/\ parserPc = "scan"
        /\ nlines' = nlines + 1
        /\ line' \in DirectionLines
        /\ ~IsBlank(buf))
          => (/\ parserPc' = "failed"
              /\ retErr' = ErrNoTerminator
              /\ retP' = <<>>)]_vars

\* a direction directive was refused inside an open statement block
C7_Witness ==
    /\ parserPc = "failed"
    /\ line \in DirectionLines
    /\ block.open
    /\ ~IsBlank(buf)
    /\ retErr = ErrNoTerminator

\* the text is blank lines and comment lines only, with a comment line
PurelyComment(s) ==
    LET ls == SplitLines(s, <<>>)
    IN  /\ \A i \in DOMAIN ls :
              IsBlank(ls[i]) \/ HasPrefix(TrimLeft(ls[i]), DashDash)
        /\ \E i \in DOMAIN ls : HasPrefix(TrimLeft(ls[i]), DashDash)

\* end of input was reached outside a statement block, in a direction
EndOutsideBlock ==
    /\ parserPc = "eof"
    /\ ~block.open
    /\ lastDirection # <<>>

\* C8 as stated: at end of input outside a statement block, lines left in the
\* buffer are rejected with the missing-terminator error, unless the buffer
\* is blank or purely a comment, in which case the parse succeeds.
C8_ResidualOrComment ==
    EndOutsideBlock
        => IF IsBlank(buf) \/ PurelyComment(buf)
           THEN retErr = NoError
           ELSE retErr = ErrNoTerminator

\* C8 as amended: at end of input outside a statement block the parse succeeds
\* exactly when the buffer is blank, and fails with the missing-terminator
\* error, returning no lists, otherwise; plain comment lines and "-- +" lines
\* are never put into the buffer, so a section of plain comments only is
\* accepted, while any other text left over, a comment without the space
\* after the dashes included, is rejected.
C8_ResidualMustBeBlank ==
    /\ EndOutsideBlock
          => IF IsBlank(buf)
             THEN retErr = NoError /\ retP = <<p>>
             ELSE retErr = ErrNoTerminator /\ retP = <<>>
    /\ LET ls == SplitLines(buf, <<>>)
       IN  \A i \in DOMAIN ls : ~HasPrefix(ls[i], CommentPrefix)

\* a Down section holding a plain comment and nothing else was accepted
C8_Witness ==
    /\ EndOutsideBlock
    /\ line = LineComment
    /\ lastDirection = LineDown
    /\ retErr = NoError
    /\ retP = <<ParsedMigrationZero>>

\* C9 as stated: every document with a StatementBegin and no StatementEnd
\* after it is rejected with the unterminated-statement-block error, before
\* the no-direction and missing-terminator checks.
C9_DanglingAlways ==
    (ParserReturned /\ beginPending) => retErr = ErrNoStatementEnd

\* C9 as amended: a document whose scan reaches end of input is rejected with
\* the unterminated-statement-block error, returning no lists, exactly when a
\* StatementBegin was read after a direction directive with no StatementEnd
\* after it, whatever the buffer holds; a StatementBegin read before any
\* direction directive opens no block, and an error of the scan itself is
\* returned first.
C9_DanglingAtEnd ==
    /\ (parserPc = "eof" /\ block.open)
          => (retErr = ErrNoStatementEnd /\ retP = <<>>)
    /\ (ParserReturned /\ ~(parserPc = "eof" /\ block.open))
          => retErr # ErrNoStatementEnd

\* a document ended inside a statement block with text in the buffer
C9_Witness ==
    /\ parserPc = "eof"
    /\ block.open
    /\ ~IsBlank(buf)
    /\ retErr = ErrNoStatementEnd

\* the lines of Lines that start with the command prefix and do not match
\* <Command> [options...] with one of the four commands
MalformedLines == {LineUnknown, LineBare}

\* C10 as stated: every line that starts with the command prefix and does not
\* match the grammar makes the parse fail with a malformed-directive error.
C10_MalformedRejected ==
    line \in MalformedLines
        => (parserPc = "failed" /\ retErr \in {ErrIncompleteCommand, ErrNotCommand})

\* C10 as amended: a line that is the command prefix with no command after it
\* makes the parse fail with the incomplete-command error, returning no lists;
\* a line with a command that is none of the four is accepted: the parse goes
\* on with the same direction, block flags, buffer and statement lists.
C10_OnlyMissingCommandRejected ==
    [][(parserPc = "scan" /\ nlines' = nlines + 1)
          => /\ line' = LineBare
                  => (/\ parserPc' = "failed"
                      /\ retErr' = ErrIncompleteCommand
                      /\ retP' = <<>>)
             /\ line' = LineUnknown
                  => (/\ parserPc' = "scan"
                      /\ retErr' = NoError
                      /\ UNCHANGED <<buf, state, p>>)]_vars

\* an unknown command was read in the middle of a statement and the parse
\* went on
C10_Witness ==
    /\ parserPc = "scan"
    /\ line = LineUnknown
    /\ lastDirection # <<>>
    /\ ~IsBlank(buf)

\* a line was scanned and the parse went on or returned
ScanStep == parserPc = "scan" /\ nlines' = nlines + 1

\* the line just scanned ended a statement: the buffer, with the line when it
\* is written, went to a statement list and was cleared
Flushed == StatementCount' = StatementCount + 1 /\ buf' = <<>>

\* C13 as stated: with a direction active and outside a statement block, a
\* line ends the current statement exactly when the last whitespace-separated
\* token before the first token starting with "--" ends with a semicolon;
\* text after an inline comment neither causes nor prevents a flush, and a
\* line with no token before the comment never flushes.
C13_SemicolonTokenExactly ==
    [][(ScanStep /\ lastDirection # <<>> /\ ~block.open)
          => /\ Flushed <=> line' \in SemicolonLines
             /\ ~Flushed => p' = p]_vars

\* C13 as amended: with a direction active and outside a statement block, a
\* line other than the configured line separator ends the current statement
\* exactly when the last whitespace-separated token before the first token
\* starting with "--" ends with a semicolon; the statement is the buffer
\* followed by the line and a newline.  A line equal to the configured line
\* separator ends the statement without any semicolon.
C13_SemicolonTokenOrSeparator ==
    [][(ScanStep /\ lastDirection # <<>> /\ ~block.open)
          => IF LineSeparator # <<>> /\ line' = LineSeparator
             THEN Flushed
             ELSE /\ Flushed <=> line' \in SemicolonLines
                  /\ Flushed =>
                        ActiveList' = Append(ActiveList, buf \o line' \o <<"\n">>)
                  /\ ~Flushed => p' = p]_vars

\* after a statement was ended, a line with a semicolon inside its inline
\* comment was added to the buffer without ending a statement
C13_Witness ==
    /\ parserPc = "scan"
    /\ line = LineACS
    /\ lastDirection # <<>>
    /\ ~block.open
    /\ StatementCount >= 1
    /\ HasSuffix(buf, LineACS \o <<"\n">>)

\* C14: with a non-empty line separator configured and a direction active, a
\* line equal to the separator outside a statement block is written into no
\* statement and ends the text accumulated so far as one statement of the
\* active direction; inside a statement block the same line ends nothing and
\* is added to the buffer as statement text.
C14_SeparatorLine ==
    [][(/\ ScanStep
        /\ LineSeparator # <<>>
        /\ lastDirection # <<>>
        /\ line' = LineSeparator)
          => /\ parserPc' = "scan"
             /\ IF block.open
                THEN buf' = buf \o line' \o <<"\n">> /\ p' = p
                ELSE /\ ActiveList' = Append(ActiveList, buf)
                     /\ StatementCount' = StatementCount + 1
                     /\ buf' = <<>>]_vars

\* a separator line ended the statement "a", and a second separator line,
\* inside a statement block, was added to the buffer
C14_Witness ==
    /\ parserPc = "scan"
    /\ LineSeparator = LineGO
    /\ line = LineGO
    /\ block.open
    /\ HasSuffix(buf, LineGO \o <<"\n">>)
    /\ StatementCount = 1
    /\ ActiveList = <<LineA \o <<"\n">>>>

\* C15: the parser never reaches the "impossible state" panic: whatever
\* lines it is given, statement-block directives, semicolon lines and
\* separator lines before any direction directive included, a statement is
\* put into a list only while the direction is Up or Down.
C15_NeverPanics ==
    /\ parserPc # "panicked"
    /\ retErr # PanicImpossibleState
    /\ lastDirection = <<>> => (p = ParsedMigrationZero /\ buf = <<>>)
    /\ StatementCount > 0 => state.direction \in {directionUp, directionDown}

\* a StatementEnd directive was read after other lines and before any
\* direction directive, and the parse went on
C15_Witness ==
    /\ parserPc = "scan"
    /\ line = LineEnd
    /\ lastDirection = <<>>
    /\ nlines >= 2

\* the ids of the planned migrations
PlanIds == {plan[i].Migration.Id : i \in DOMAIN plan}

\* the call of Exec that has returned failed inside the loop over the plan
FailedInLoop == execPc = "returned" /\ Planned /\ planIndex <= Len(plan)

\* C17: Exec is all-or-nothing.  When a statement of a planned migration or
\* the insert or delete of its row fails, the transaction is rolled back and
\* the rows of the migrations table after Exec returns are the rows before
\* the call; the rows change only by the commit that follows the success of
\* every planned step, and then by the whole plan at once.
C17_AllOrNothing ==
    /\ FailedInLoop
          => (execErr # NoError /\ ~txOpen /\ records = recordsAtCall)
    /\ (execPc = "returned" /\ execErr # NoError) => records = recordsAtCall
    /\ execPc \in {"locked", "apply"} => records = recordsAtCall
    /\ (execPc = "returned" /\ records # recordsAtCall)
          => /\ execErr = NoError
             /\ planIndex = Len(plan) + 1
             /\ applied = Len(plan)
             /\ records = IF dir = Up THEN recordsAtCall \cup PlanIds
                          ELSE recordsAtCall \ PlanIds

\* the second planned migration failed after the first had been executed and
\* its row inserted, and the table holds the rows it held before the call
C17_Witness ==
    /\ FailedInLoop
    /\ dir = Up
    /\ planIndex = 2
    /\ applied = 1
    /\ plan[1].Migration.Id \notin recordsAtCall
    /\ records = recordsAtCall

\* C18: every call of Exec that began a transaction has ended it, by Commit
\* or Rollback, when it returns, on every return path: no transaction is left
\* open.
C18_TransactionEnded ==
    execPc = "returned" => ~txOpen

C16_RunsSerialized ==
    /\ Cardinality(lockHolders) <= 1
    /\ \A m \in Runs : ~planOverlap[m]
    /\ \A m \in Runs :
          runPc[m] \in {"locked", "apply"} => lockHolders = {m}
    /\ runCommitted[1] \cap runCommitted[2] = {}

\* both runs committed: one applied two migrations, the other one planned
\* after it and had nothing left to apply
C16_Witness ==
    /\ \A m \in Runs : runPc[m] = "returned" /\ runErr[m] = NoError
    /\ \E m \in Runs :
          /\ Cardinality(runCommitted[m]) = 2
          /\ runPlan[OtherRun(m)] = <<>>
          /\ runTx[OtherRun(m)] = records

(***************************************************************************)
(* Properties of the package: reproducible parsing.                        *)
(***************************************************************************)
\* C11: two calls of ParseMigration on the same text return the same result,
\* the same statement lists or the same error, whatever the program does to
\* the package before or during the calls.
C11_Reproducible ==
    (call = 2 /\ ParserReturned)
        => firstRet = <<[p |-> retP, err |-> retErr]>>

(***************************************************************************)
(* Properties of Exec: what it returns and what it leaves behind.          *)
(***************************************************************************)
\* the planned migrations whose statements and row change the call of Exec
\* that has returned committed: all of the plan when Commit returned nil,
\* none otherwise
CommittedCount == IF execErr = NoError THEN Len(plan) ELSE 0

\* C12: on every return path of Exec, with or without an error, the returned
\* count is the number of planned migrations whose statements and row change
\* that call committed to the database.
C12_ReturnsCommittedCount ==
    execPc = "returned" => applied = CommittedCount

====
